---- MODULE Spec2Model ----
(***************************************************************************)
(* A state-machine model of the V&V backend API (vv_backend_api):          *)
(* the relational tables of app/db/models.py, the per-request transaction  *)
(* of app/db/__init__.py (session_scope), and the handlers of              *)
(* app/routes/api.py.  Handler threads (Workers) run concurrently; the     *)
(* run-creation handler is split at the points where it talks to the       *)
(* database or to the test-runner subprocess, every other handler is one   *)
(* step from its first statement to the commit of its transaction.         *)
(***************************************************************************)
EXTENDS Integers, Sequences, FiniteSets, TLC

VARIABLES
    databaseUrl,   \* "sqlite" (DATABASE_URL unset) or "postgres"
    llmMock,       \* LLMService: self.mock or self.provider == "mock"
    db,            \* the committed rows of each table
    seq,           \* the server-side id sequences (postgres only)
    files,         \* the paths written under DATA_DIR
    pc,            \* each handler thread's position
    req,           \* each handler thread's locals in Runs.post
    sess,          \* each handler thread's session: rows flushed, not committed
    resp,          \* each handler thread's response, until it is sent
    svc            \* the last calls of the services' functions: arguments, result

vars == <<databaseUrl, llmMock, db, seq, files, pc, req, sess, resp, svc>>

---------------------------------------------------------------------------
(* Bounds of the model *)

MaxSrs == 1
MaxTestCases == 2
MaxScripts == 2
MaxRuns == 2
MaxResults == 3
MaxScriptIds == 3

Workers == {"w1", "w2"}
Titles == {"Login"}
ExitCodes == {0, 1, -9}

NULL == "NULL"
Tables == {"srs", "test_case", "script", "run", "test_result"}

---------------------------------------------------------------------------
(* Helpers *)

Range(s) == {s[i] : i \in DOMAIN s}

Ids(rows) == {x.id : x \in rows}

MaxOf(S) == IF S = {} THEN 0 ELSE CHOOSE m \in S : \A x \in S : x <= m

SeqsUpTo(S, n) == UNION {[1..k -> S] : k \in 0..n}

utcnow == "utcnow"

---------------------------------------------------------------------------
(* The database: engine, session, transaction *)

\* SQLite enforces FOREIGN KEY clauses (and so ON DELETE CASCADE) only on a
\* connection that has run PRAGMA foreign_keys=ON; the engine is created
\* with connect_args {"check_same_thread": False} and nothing else.
ForeignKeysEnforced == databaseUrl # "sqlite"

EmptyTables == [t \in Tables |-> {}]

EmptySession == [added |-> EmptyTables, deleted |-> EmptyTables]

\* What a session reads: the committed rows and its own flushed changes.
View(d, s) == [t \in Tables |-> (d[t] \ s.deleted[t]) \cup s.added[t]]

Commit_OnlySession(d, s) == [t \in Tables |-> s.added[t]]

Commit(d, s) == View(d, s)

Rollback_KeepsFlushed(d, s) == View(d, s)

Rollback(d, s) == d

session_scope_NoRollback(d, s, raised) == Commit(d, s)

\* with session_scope() as db: commit on a normal exit (a return included),
\* rollback and re-raise on an exception.
session_scope(d, s, raised) == IF raised THEN Rollback(d, s) ELSE Commit(d, s)

\* SQLite has one writer at a time: the first INSERT of a transaction takes
\* the database's write lock and holds it until commit or rollback.
WriteLockFree(w) ==
    databaseUrl = "sqlite" => \A q \in Workers \ {w} : pc[q] \in {"idle", "done"}

NextId_MaxPlusOne(sq, t, rows) == MaxOf(Ids(rows)) + 1

\* The id an INSERT gets at flush.  SQLite: an INTEGER PRIMARY KEY without
\* AUTOINCREMENT is one more than the largest rowid in the table.  Postgres:
\* nextval of the table's sequence, never handed out twice.
NextId(sq, t, rows) ==
    IF databaseUrl = "sqlite" THEN MaxOf(Ids(rows)) + 1 ELSE sq[t] + 1

Advance(sq, t, n) ==
    IF databaseUrl = "sqlite" THEN sq ELSE [sq EXCEPT ![t] = @ + n]

Get_OffByOne(rows, id) == {x \in rows : x.id = id - 1}

\* db.get(Model, id): the row with that primary key, if any (a set of at
\* most one row; empty for None).
Get(rows, id) == {x \in rows : x.id = id}

Add(s, t, rows) == [s EXCEPT !.added[t] = @ \cup rows]

Delete(s, t, rows) == [s EXCEPT !.deleted[t] = @ \cup rows]

---------------------------------------------------------------------------
(* The constraints of app/db/models.py *)

\* UniqueConstraint("srs_id", "name") on test_case and
\* UniqueConstraint("run_id", "script_id") on test_result.
UniqueViolation_None(t, rows, row) == FALSE

UniqueViolation(t, rows, row) ==
    CASE t = "test_case" ->
            \E x \in rows : x.srs_id = row.srs_id /\ x.name = row.name
      [] t = "test_result" ->
            \E x \in rows : x.run_id = row.run_id /\ x.script_id = row.script_id
      [] OTHER -> FALSE

\* ForeignKey("srs.id"), ForeignKey("test_case.id"), ForeignKey("run.id"),
\* ForeignKey("script.id"): the parent row must exist.
ForeignKeyViolation(t, v, row) ==
    CASE t = "test_case" -> row.srs_id \notin Ids(v["srs"])
      [] t = "script" -> row.test_case_id \notin Ids(v["test_case"])
      [] t = "test_result" ->
            \/ row.run_id \notin Ids(v["run"])
            \/ row.script_id \notin Ids(v["script"])
      [] OTHER -> FALSE

IntegrityError_ForeignKeysOnly(t, v, row) ==
    ForeignKeysEnforced /\ ForeignKeyViolation(t, v, row)

\* Whether the INSERT of row into table t raises IntegrityError at flush.
IntegrityError(t, v, row) ==
    \/ UniqueViolation(t, v[t], row)
    \/ ForeignKeysEnforced /\ ForeignKeyViolation(t, v, row)

\* ON DELETE CASCADE, as the database applies it when it enforces foreign
\* keys: the rows that go with a set of deleted srs rows.
OnDeleteCascade(v, gone) ==
    LET tcs == {x \in v["test_case"] : x.srs_id \in Ids(gone)}
        scs == {x \in v["script"] : x.test_case_id \in Ids(tcs)}
        trs == {x \in v["test_result"] : x.script_id \in Ids(scs)}
    IN  [EmptyTables EXCEPT !["srs"] = gone, !["test_case"] = tcs,
                            !["script"] = scs, !["test_result"] = trs]

---------------------------------------------------------------------------
(* Services *)

generate_test_cases_FromContent(srs_title, srs_content) ==
    IF llmMock
    THEN << [name |-> <<"Verify title presence: ", srs_title>>,
             description |-> srs_content,
             priority |-> "P1", tags |-> "ui,smoke"],
            [name |-> <<"Check login flow">>,
             description |-> "User can login with valid credentials and reach dashboard.",
             priority |-> "P0", tags |-> "auth,critical"] >>
    ELSE << [name |-> <<"Sample LLM Case">>,
             description |-> "LLM provider not configured; returning placeholder.",
             priority |-> "P2", tags |-> "placeholder"] >>

\* LLMService.generate_test_cases: the drafts, in order.  A name is the
\* sequence of the parts of its f-string.
generate_test_cases(srs_title, srs_content) ==
    IF llmMock
    THEN << [name |-> <<"Verify title presence: ", srs_title>>,
             description |-> "Ensure the application displays the correct title on the homepage.",
             priority |-> "P1", tags |-> "ui,smoke"],
            [name |-> <<"Check login flow">>,
             description |-> "User can login with valid credentials and reach dashboard.",
             priority |-> "P0", tags |-> "auth,critical"] >>
    ELSE << [name |-> <<"Sample LLM Case">>,
             description |-> "LLM provider not configured; returning placeholder.",
             priority |-> "P2", tags |-> "placeholder"] >>

\* str.lower(), str.replace(" ", "_") and str.replace(":", "") on a string
\* given as the sequence of its characters.
lower(str) ==
    [i \in DOMAIN str |-> CASE str[i] = "A" -> "a"
                            [] str[i] = "B" -> "b"
                            [] OTHER -> str[i]]

replace_space(str) == [i \in DOMAIN str |-> IF str[i] = " " THEN "_" ELSE str[i]]

replace_colon(str) == SelectSeq(str, LAMBDA c : c # ":")

generate_script_WithTags(test_case) ==
    IF llmMock
    THEN <<"import pytest ... def test_">>
             \o replace_colon(replace_space(lower(test_case.name)))
             \o <<"(url): ... ", test_case.tags>>
    ELSE <<"# Placeholder script for: ">> \o test_case.name \o <<"\n">>

\* LLMService.generate_script: the script text, as the fixed parts of the
\* template around the characters of name_slug.
generate_script(test_case) ==
    IF llmMock
    THEN <<"import pytest ... def test_">>
             \o replace_colon(replace_space(lower(test_case.name)))
             \o <<"(url): ... browser.close()\n">>
    ELSE <<"# Placeholder script for: ">> \o test_case.name \o <<"\n">>

\* ScriptService.write_script_for_test_case: the path of the script file,
\* deterministic in the test case and its name, under scripts/tc_<id>/.
write_script_for_test_case(test_case_id, name) ==
    <<"scripts", test_case_id, name>>

\* StorageService.run_artifact: runs/run_<run_id>/<relative_name>.
run_artifact(run_id, relative_name) == <<"runs", run_id, relative_name>>

\* csv.reader (the default dialect) over the decoded text, given as the
\* sequence of its characters, from character i on: the rows read.  st is
\* the reader's state, field the characters of the field being read, fields
\* the fields of the row being read.  A line break ends a row unless it is
\* inside a quoted field; a blank line is a row without fields.
RECURSIVE csv_reader(_, _, _, _, _, _)
csv_reader(data, i, st, field, fields, rows) ==
    IF i > Len(data)
    THEN CASE st = "START_RECORD" -> rows
           [] st = "START_FIELD" -> Append(rows, Append(fields, <<>>))
           [] OTHER -> Append(rows, Append(fields, field))
    ELSE LET c == data[i]
             EndRow(f) == csv_reader(data, i + 1, "START_RECORD", <<>>, <<>>,
                                     Append(rows, f))
             EndField(f) == csv_reader(data, i + 1, "START_FIELD", <<>>,
                                       Append(fields, f), rows)
             Go(state, f) == csv_reader(data, i + 1, state, f, fields, rows)
         IN  CASE st = "START_RECORD" ->
                    (CASE c = "\n" -> EndRow(<<>>)
                       [] c = "\"" -> Go("IN_QUOTED_FIELD", <<>>)
                       [] c = "," -> EndField(<<>>)
                       [] OTHER -> Go("IN_FIELD", <<c>>))
               [] st = "START_FIELD" ->
                    (CASE c = "\n" -> EndRow(Append(fields, <<>>))
                       [] c = "\"" -> Go("IN_QUOTED_FIELD", <<>>)
                       [] c = "," -> EndField(<<>>)
                       [] OTHER -> Go("IN_FIELD", <<c>>))
               [] st = "IN_FIELD" ->
                    (CASE c = "\n" -> EndRow(Append(fields, field))
                       [] c = "," -> EndField(field)
                       [] OTHER -> Go("IN_FIELD", Append(field, c)))
               [] st = "IN_QUOTED_FIELD" ->
                    (CASE c = "\"" -> Go("QUOTE_IN_QUOTED_FIELD", field)
                       [] OTHER -> Go("IN_QUOTED_FIELD", Append(field, c)))
               [] OTHER -> \* QUOTE_IN_QUOTED_FIELD
                    (CASE c = "\"" -> Go("IN_QUOTED_FIELD", Append(field, c))
                       [] c = "," -> EndField(field)
                       [] c = "\n" -> EndRow(Append(fields, field))
                       [] OTHER -> Go("IN_FIELD", Append(field, c)))

Whitespace == {" ", "\n"}

\* str.strip()
RECURSIVE strip(_)
strip(str) ==
    IF str = <<>> THEN <<>>
    ELSE IF Head(str) \in Whitespace THEN strip(Tail(str))
    ELSE IF str[Len(str)] \in Whitespace THEN strip(SubSeq(str, 1, Len(str) - 1))
    ELSE str

\* sep.join(list)
RECURSIVE join(_, _)
join(sep, list) ==
    IF list = <<>> THEN <<>>
    ELSE IF Len(list) = 1 THEN list[1]
    ELSE list[1] \o sep \o join(sep, Tail(list))

\* (r + [""] * n)[:n]
PadTruncate(r, n) == [i \in 1..n |-> IF i <= Len(r) THEN r[i] ELSE <<>>]

\* _normalize_text_from_csv_bytes, on the decoded text.
_normalize_text_from_csv_bytes(data) ==
    LET read == csv_reader(data, 1, "START_RECORD", <<>>, <<>>, <<>>)
        rows == [k \in DOMAIN read |-> [j \in DOMAIN read[k] |-> strip(read[k][j])]]
    IN  IF rows = <<>> THEN <<>>
        ELSE LET header == rows[1]
                 out_lines ==
                     << join(<<" ", "|", " ">>, header),
                        join(<<" ", "|", " ">>,
                             [j \in DOMAIN header |-> <<"-", "-", "-">>]) >>
                     \o [k \in 1..(Len(rows) - 1) |->
                            join(<<" ", "|", " ">>,
                                 PadTruncate(rows[k + 1], Len(header)))]
             IN  join(<<"\n">>, out_lines)

---------------------------------------------------------------------------
(* Rows, requests and responses *)

NoRun == [id |-> 0, status |-> "pending", started_at |-> NULL, finished_at |-> NULL]

NoRequest == [run |-> NoRun, scripts |-> {}, valid |-> {}, code |-> 0, launches |-> 0]

NoResponse == [op |-> NULL, http |-> 0, error |-> NULL, run |-> NoRun, body |-> NULL]

\* A call of a service function; fn NULL: no call yet.
NoCall == [fn |-> NULL, args |-> NULL, result |-> NULL]

Response(op, http, error) ==
    [NoResponse EXCEPT !.op = op, !.http = http, !.error = error]

Init ==
    /\ databaseUrl \in {"sqlite", "postgres"}
    /\ llmMock \in BOOLEAN
    /\ db = EmptyTables
    /\ seq = [t \in Tables |-> 0]
    /\ files = {}
    /\ pc = [w \in Workers |-> "idle"]
    /\ req = [w \in Workers |-> NoRequest]
    /\ sess = [w \in Workers |-> EmptySession]
    /\ resp = [w \in Workers |-> NoResponse]
    /\ svc = [prev |-> NoCall, cur |-> NoCall]

\* The handler of worker w ends with response r.
Return(w, r) ==
    /\ pc' = [pc EXCEPT ![w] = "done"]
    /\ resp' = [resp EXCEPT ![w] = r]

\* The response is sent; the thread takes the next request.
Deliver(w) ==
    /\ pc[w] = "done"
    /\ pc' = [pc EXCEPT ![w] = "idle"]
    /\ resp' = [resp EXCEPT ![w] = NoResponse]
    /\ req' = [req EXCEPT ![w] = NoRequest]
    /\ UNCHANGED <<databaseUrl, llmMock, svc, db, seq, files, sess>>

---------------------------------------------------------------------------
(* POST /api/srs *)

SRSCollectionPost(w, title) ==
    /\ pc[w] = "idle"
    /\ WriteLockFree(w)
    /\ LET id == NextId(seq, "srs", db["srs"])
           s == Add(EmptySession, "srs", {[id |-> id, title |-> title]})
       IN  /\ id <= MaxSrs
           /\ db' = session_scope(db, s, FALSE)
           /\ seq' = Advance(seq, "srs", 1)
           /\ Return(w, Response("POST /api/srs", 201, NULL))
    /\ UNCHANGED <<databaseUrl, llmMock, svc, files, req, sess>>

---------------------------------------------------------------------------
(* POST /api/testcases/generate *)

\* for c in cases: db.add(TestCase(...)); db.flush() -- from case i on.
\* st is [sess, seq, raised]; a flush that raises ends the loop.
RECURSIVE FlushTestCases(_, _, _, _)
FlushTestCases(st, srs, cases, i) ==
    IF i > Len(cases) \/ st.raised
    THEN st
    ELSE LET v == View(db, st.sess)
             tc == [id |-> NextId(st.seq, "test_case", v["test_case"]),
                    srs_id |-> srs.id, name |-> cases[i].name]
             bad == IntegrityError("test_case", v, tc)
         IN  FlushTestCases(
                 [sess |-> IF bad THEN st.sess ELSE Add(st.sess, "test_case", {tc}),
                  seq |-> Advance(st.seq, "test_case", 1),
                  raised |-> bad],
                 srs, cases, i + 1)

\* The ids handed out so far stay within the model's bound.
WithinBound(t, d, sq, max) ==
    IF databaseUrl = "sqlite" THEN MaxOf(Ids(d[t])) <= max ELSE sq[t] <= max

TestCaseGenerationPost(w, srs_id) ==
    /\ pc[w] = "idle"
    /\ IF Get(db["srs"], srs_id) = {}
       THEN \* srs = db.get(SRS, srs_id); if not srs: return ..., 404
            /\ db' = session_scope(db, EmptySession, FALSE)
            /\ Return(w, Response("POST /api/testcases/generate", 404, NULL))
            /\ UNCHANGED seq
       ELSE LET srs == CHOOSE x \in Get(db["srs"], srs_id) : TRUE
                cases == generate_test_cases(srs.title, "")
                st == FlushTestCases(
                          [sess |-> EmptySession, seq |-> seq, raised |-> FALSE],
                          srs, cases, 1)
            IN  /\ WriteLockFree(w)
                /\ WithinBound("test_case", View(db, st.sess), st.seq, MaxTestCases)
                /\ db' = session_scope(db, st.sess, st.raised)
                /\ seq' = st.seq
                /\ Return(w, IF st.raised
                             THEN Response("POST /api/testcases/generate", 500,
                                           "IntegrityError")
                             ELSE Response("POST /api/testcases/generate", 200, NULL))
    /\ UNCHANGED <<databaseUrl, llmMock, svc, files, req, sess>>

---------------------------------------------------------------------------
(* POST /api/scripts/generate *)

ScriptGenerationPost(w, tc_id) ==
    /\ pc[w] = "idle"
    /\ IF Get(db["test_case"], tc_id) = {}
       THEN \* tc = db.get(TestCase, tc_id); if not tc: return ..., 404
            /\ db' = session_scope(db, EmptySession, FALSE)
            /\ Return(w, Response("POST /api/scripts/generate", 404, NULL))
            /\ UNCHANGED <<seq, files>>
       ELSE LET tc == CHOOSE x \in Get(db["test_case"], tc_id) : TRUE
                file_path == write_script_for_test_case(tc.id, tc.name)
                script == [id |-> NextId(seq, "script", db["script"]),
                           test_case_id |-> tc.id, file_path |-> file_path]
                raised == IntegrityError("script", db, script)
                s == IF raised THEN EmptySession
                     ELSE Add(EmptySession, "script", {script})
            IN  /\ WriteLockFree(w)
                /\ script.id <= MaxScripts
                /\ files' = files \cup {file_path}
                /\ db' = session_scope(db, s, raised)
                /\ seq' = Advance(seq, "script", 1)
                /\ Return(w, IF raised
                             THEN Response("POST /api/scripts/generate", 500,
                                           "IntegrityError")
                             ELSE Response("POST /api/scripts/generate", 201, NULL))
    /\ UNCHANGED <<databaseUrl, llmMock, svc, req, sess>>

---------------------------------------------------------------------------
(* POST /api/runs *)

ScriptIdLists == SeqsUpTo(1..(MaxScripts + 1), MaxScriptIds)

NewRun_Pending(id) ==
    [id |-> id, status |-> "pending", started_at |-> NULL, finished_at |-> NULL]

\* run = Run(label=..., status="running", started_at=datetime.utcnow(), ...)
NewRun(id) ==
    [id |-> id, status |-> "running", started_at |-> utcnow, finished_at |-> NULL]

QueryScripts_All(v, script_ids) == v["script"]

QueryScripts_Unchecked(v, script_ids) ==
    {[id |-> i, test_case_id |-> 0, file_path |-> NULL] : i \in Range(script_ids)}

\* scripts = db.query(Script).filter(Script.id.in_(payload["script_ids"])).all()
QueryScripts(v, script_ids) == {x \in v["script"] : x.id \in Range(script_ids)}

\* The handler up to the call of run_scripts: the Run is added and flushed,
\* the scripts are queried.  Nothing another request does can tell the two
\* statements apart, so they are one step.
RunsPostBegin(w, script_ids) ==
    /\ pc[w] = "idle"
    /\ WriteLockFree(w)
    /\ LET run == NewRun(NextId(seq, "run", db["run"]))
           s == Add(EmptySession, "run", {run})
       IN  /\ run.id <= MaxRuns
           /\ sess' = [sess EXCEPT ![w] = s]
           /\ seq' = Advance(seq, "run", 1)
           /\ req' = [req EXCEPT ![w] =
                  [NoRequest EXCEPT
                      !.run = run,
                      !.scripts = QueryScripts(View(db, s), script_ids),
                      !.valid = {i \in Range(script_ids) :
                                    \E x \in db["script"] : x.id = i}]]
    /\ pc' = [pc EXCEPT ![w] = "queried"]
    /\ UNCHANGED <<databaseUrl, llmMock, db, files, resp>>

\* ExecutionService.run_scripts up to Popen: the run directory and run.log are
\* created, then the runner is launched, once.  A launch that fails raises
\* OSError, which nothing catches before session_scope.
RunsPostLaunch(w) ==
    /\ pc[w] = "queried"
    /\ files' = files \cup {run_artifact(req[w].run.id, "run.log")}
    /\ \E started \in BOOLEAN :
          IF started
          THEN /\ pc' = [pc EXCEPT ![w] = "running"]
               /\ req' = [req EXCEPT ![w].launches = @ + 1]
               /\ UNCHANGED <<db, sess, resp>>
          ELSE /\ db' = session_scope(db, sess[w], TRUE)
               /\ Return(w, Response("POST /api/runs", 500, "OSError"))
               /\ req' = [req EXCEPT ![w].launches = @ + 1]
               /\ sess' = [sess EXCEPT ![w] = EmptySession]
    /\ UNCHANGED <<databaseUrl, llmMock, svc, seq>>

\* ret = proc.wait(): the runner has exited, having written results.xml;
\* run_scripts returns (ret, junit_xml, log_path).
RunsPostWait(w) ==
    /\ pc[w] = "running"
    /\ \E ret \in ExitCodes : req' = [req EXCEPT ![w].code = ret]
    /\ files' = files \cup {run_artifact(req[w].run.id, "results.xml")}
    /\ pc' = [pc EXCEPT ![w] = "returned"]
    /\ UNCHANGED <<databaseUrl, llmMock, svc, db, seq, sess, resp>>

RunStatus_PositiveFails(code) == IF code > 0 THEN "failed" ELSE "completed"

\* run.status = "completed" if code == 0 else "failed"
RunStatus(code) == IF code = 0 THEN "completed" ELSE "failed"

\* outcome="passed" if code == 0 else "failed"
Outcome(code) == IF code = 0 THEN "passed" ELSE "failed"

TestResultsFor_OnlyFirst(run, scripts, code, first) ==
    {[id |-> first, run_id |-> run.id, script_id |-> x.id, outcome |-> Outcome(code)]
        : x \in {y \in scripts : \A z \in scripts : y.id <= z.id}}

\* for s in scripts: db.add(TestResult(run_id=run.id, script_id=s.id, ...))
TestResultsFor(run, scripts, code, first) ==
    {[id |-> first + Cardinality({y \in scripts : y.id < x.id}),
      run_id |-> run.id, script_id |-> x.id, outcome |-> Outcome(code)]
        : x \in scripts}

\* The rest of the handler: the run's status and finished_at, the TestResult
\* rows, db.flush(), return run, and the commit of session_scope.
RunsPostFinish(w) ==
    /\ pc[w] = "returned"
    /\ LET code == req[w].code
           run == [req[w].run EXCEPT !.status = RunStatus(code),
                                     !.finished_at = utcnow]
           s1 == [sess[w] EXCEPT !.added["run"] = (@ \ {req[w].run}) \cup {run}]
           v == View(db, s1)
           trs == TestResultsFor(run, req[w].scripts, code,
                                 NextId(seq, "test_result", v["test_result"]))
           raised == \E tr \in trs : IntegrityError("test_result", v, tr)
           s2 == Add(s1, "test_result", trs)
       IN  /\ db' = session_scope(db, s2, raised)
           /\ seq' = Advance(seq, "test_result", Cardinality(trs))
           /\ Return(w, IF raised
                        THEN Response("POST /api/runs", 500, "IntegrityError")
                        ELSE [Response("POST /api/runs", 201, NULL) EXCEPT !.run = run])
           /\ req' = [req EXCEPT ![w].run = run]
    /\ sess' = [sess EXCEPT ![w] = EmptySession]
    /\ UNCHANGED <<databaseUrl, llmMock, svc, files>>

\* SQLite, the write lock held by another request for longer than the
\* connection's busy timeout: the first INSERT raises OperationalError
\* ("database is locked"); session_scope rolls back and re-raises.
DatabaseLocked(w) ==
    /\ pc[w] = "idle"
    /\ ~WriteLockFree(w)
    /\ db' = session_scope(db, EmptySession, TRUE)
    /\ Return(w, Response("POST", 500, "OperationalError"))
    /\ UNCHANGED <<databaseUrl, llmMock, svc, seq, files, req, sess>>

---------------------------------------------------------------------------
(* The GET endpoints *)

Snapshot_Dirty(d, ss, w) ==
    [t \in Tables |-> d[t] \cup UNION {ss[q].added[t] : q \in Workers}]

\* What a query of worker w's session reads: the committed rows and the
\* session's own flushed rows, never another session's.
Snapshot(d, ss, w) == View(d, ss[w])

\* TimestampMixin.created_at of a Run: datetime.utcnow() at its INSERT.  Run
\* rows are inserted in the order of their ids, so the id stands for the
\* time.
created_at(run) == run.id

Latest_Oldest(rows) ==
    IF rows = {} THEN {}
    ELSE {CHOOSE x \in rows : \A y \in rows : created_at(x) <= created_at(y)}

\* db.query(Run).order_by(Run.created_at.desc()).first(): a set of at most
\* one row; empty for None.
Latest(rows) ==
    IF rows = {} THEN {}
    ELSE {CHOOSE x \in rows : \A y \in rows : created_at(y) <= created_at(x)}

\* sum(1 for r in results if r.outcome == outcome)
CountOutcome(results, outcome) == Cardinality({r \in results : r.outcome = outcome})

\* GET /api/srs/<srs_id>
SRSItemGet(w, srs_id) ==
    /\ pc[w] = "idle"
    /\ db' = session_scope(db, EmptySession, FALSE)
    /\ LET srs == Get(Snapshot(db, sess, w)["srs"], srs_id)
       IN  Return(w, [Response("GET /api/srs/<srs_id>",
                               IF srs = {} THEN 404 ELSE 200, NULL)
                         EXCEPT !.body = srs])
    /\ UNCHANGED <<databaseUrl, llmMock, svc, seq, files, req, sess>>

\* GET /api/testcases/generate
TestCasesGet(w) ==
    /\ pc[w] = "idle"
    /\ Return(w, [Response("GET /api/testcases/generate", 200, NULL)
                     EXCEPT !.body = Snapshot(db, sess, w)["test_case"]])
    /\ UNCHANGED <<databaseUrl, llmMock, svc, db, seq, files, req, sess>>

\* GET /api/scripts/generate
ScriptsGet(w) ==
    /\ pc[w] = "idle"
    /\ Return(w, [Response("GET /api/scripts/generate", 200, NULL)
                     EXCEPT !.body = Snapshot(db, sess, w)["script"]])
    /\ UNCHANGED <<databaseUrl, llmMock, svc, db, seq, files, req, sess>>

\* GET /api/runs/<run_id>
RunItemGet(w, run_id) ==
    /\ pc[w] = "idle"
    /\ db' = session_scope(db, EmptySession, FALSE)
    /\ LET run == Get(Snapshot(db, sess, w)["run"], run_id)
       IN  Return(w, IF run = {}
                     THEN [Response("GET /api/runs/<run_id>", 404, NULL)
                              EXCEPT !.body = run_id]
                     ELSE [Response("GET /api/runs/<run_id>", 200, NULL)
                              EXCEPT !.body = run_id,
                                     !.run = CHOOSE x \in run : TRUE])
    /\ UNCHANGED <<databaseUrl, llmMock, svc, seq, files, req, sess>>

\* GET /api/runs/<run_id>/results
RunResultsGet(w, run_id) ==
    /\ pc[w] = "idle"
    /\ Return(w, [Response("GET /api/runs/<run_id>/results", 200, NULL)
                     EXCEPT !.body =
                         [run_id |-> run_id,
                          results |-> {x \in Snapshot(db, sess, w)["test_result"] :
                                          x.run_id = run_id}]])
    /\ UNCHANGED <<databaseUrl, llmMock, svc, db, seq, files, req, sess>>

\* GET /api/runs/<run_id>/logs
RunLogsGet(w, run_id) ==
    /\ pc[w] = "idle"
    /\ LET log_path == run_artifact(run_id, "run.log")
       IN  Return(w, [Response("GET /api/runs/<run_id>/logs",
                               IF log_path \in files THEN 200 ELSE 404, NULL)
                         EXCEPT !.body = log_path])
    /\ UNCHANGED <<databaseUrl, llmMock, svc, db, seq, files, req, sess>>

\* GET /api/reports/latest, its first query: the latest Run, 404 if none.
ReportsLatestBegin(w) ==
    /\ pc[w] = "idle"
    /\ LET latest == Latest(Snapshot(db, sess, w)["run"])
       IN  IF latest = {}
           THEN /\ Return(w, Response("GET /api/reports/latest", 404, NULL))
                /\ UNCHANGED req
           ELSE /\ pc' = [pc EXCEPT ![w] = "latest"]
                /\ req' = [req EXCEPT ![w].run = CHOOSE x \in latest : TRUE]
                /\ UNCHANGED resp
    /\ UNCHANGED <<databaseUrl, llmMock, svc, db, seq, files, sess>>

\* GET /api/reports/latest, its second query and the summary.
ReportsLatestFinish(w) ==
    /\ pc[w] = "latest"
    /\ LET latest == req[w].run
           results == {x \in Snapshot(db, sess, w)["test_result"] :
                          x.run_id = latest.id}
       IN  Return(w, [Response("GET /api/reports/latest", 200, NULL)
                         EXCEPT !.body =
                             [run_id |-> latest.id,
                              status |-> latest.status,
                              passed |-> CountOutcome(results, "passed"),
                              failed |-> CountOutcome(results, "failed"),
                              total |-> Cardinality(results)]])
    /\ UNCHANGED <<databaseUrl, llmMock, svc, db, seq, files, req, sess>>

---------------------------------------------------------------------------
(* Operations on the mapped classes that no endpoint exposes *)

\* session.delete(srs); commit.  relationship(cascade="all, delete-orphan",
\* passive_deletes=True): the session deletes the children whose collection
\* it has loaded and leaves the others to the database's ON DELETE CASCADE.
\* tcLoaded: srs.test_cases is loaded; scLoaded: the test cases whose .scripts
\* is loaded; trLoaded: the scripts whose .results is loaded.
DeleteSRS(w, srs_id) ==
    /\ pc[w] = "idle"
    /\ WriteLockFree(w)
    /\ Get(db["srs"], srs_id) # {}
    /\ \E tcLoaded \in BOOLEAN :
       LET gone == Get(db["srs"], srs_id)
           tcs == IF tcLoaded THEN {x \in db["test_case"] : x.srs_id = srs_id}
                  ELSE {}
       IN  \E scLoaded \in SUBSET Ids(tcs) :
           LET scs == {x \in db["script"] : x.test_case_id \in scLoaded}
           IN  \E trLoaded \in SUBSET Ids(scs) :
               LET trs == {x \in db["test_result"] : x.script_id \in trLoaded}
                   orm == [EmptyTables EXCEPT
                              !["srs"] = gone, !["test_case"] = tcs,
                              !["script"] = scs, !["test_result"] = trs]
                   cascade == IF ForeignKeysEnforced
                              THEN OnDeleteCascade(db, gone)
                              ELSE EmptyTables
                   s == [added |-> EmptyTables,
                         deleted |-> [t \in Tables |-> orm[t] \cup cascade[t]]]
               IN  db' = session_scope(db, s, FALSE)
    /\ Return(w, Response("session.delete(srs)", 0, NULL))
    /\ UNCHANGED <<databaseUrl, llmMock, svc, seq, files, req, sess>>

\* session.add(TestResult(run_id=..., script_id=...)); commit.
AddTestResult(w, run_id, script_id) ==
    /\ pc[w] = "idle"
    /\ WriteLockFree(w)
    /\ LET tr == [id |-> NextId(seq, "test_result", db["test_result"]),
                  run_id |-> run_id, script_id |-> script_id,
                  outcome |-> "pending"]
           raised == IntegrityError("test_result", db, tr)
           s == IF raised THEN EmptySession
                ELSE Add(EmptySession, "test_result", {tr})
       IN  /\ tr.id <= MaxResults
           /\ db' = session_scope(db, s, raised)
           /\ seq' = Advance(seq, "test_result", 1)
           /\ Return(w, IF raised
                        THEN Response("session.add(TestResult)", 0, "IntegrityError")
                        ELSE Response("session.add(TestResult)", 0, NULL))
    /\ UNCHANGED <<databaseUrl, llmMock, svc, files, req, sess>>

---------------------------------------------------------------------------
(* Specifications *)

\* The writing endpoints but the first step of POST /api/runs, served by the
\* handler threads W.
NextApiButRuns(W) ==
    \/ \E w \in W, title \in Titles : SRSCollectionPost(w, title)
    \/ \E w \in W, srs_id \in 1..(MaxSrs + 1) : TestCaseGenerationPost(w, srs_id)
    \/ \E w \in W, tc_id \in 1..(MaxTestCases + 1) : ScriptGenerationPost(w, tc_id)
    \/ \E w \in W : RunsPostLaunch(w)
    \/ \E w \in W : RunsPostWait(w)
    \/ \E w \in W : RunsPostFinish(w)
    \/ \E w \in W : Deliver(w)

\* The endpoints of the API, served by the handler threads W.
NextApi(W) ==
    \/ NextApiButRuns(W)
    \/ \E w \in W, script_ids \in ScriptIdLists :
          RunsPostBegin(w, script_ids) /\ UNCHANGED svc

\* The API under concurrent requests.
Next ==
    \/ NextApi(Workers)
    \/ \E w \in Workers : DatabaseLocked(w)

Spec == Init /\ [][Next]_vars

\* One request at a time: the API and, beside it, TestResult rows written
\* through the mapped class.
NextResults ==
    \/ NextApi({"w1"})
    \/ \E run_id \in 1..MaxRuns, script_id \in 1..MaxScripts :
          AddTestResult("w1", run_id, script_id)

SpecResults == Init /\ [][NextResults]_vars

\* One request at a time: the API and, beside it, SRS rows deleted through
\* the mapped class.
NextDelete ==
    \/ NextApi({"w1"})
    \/ \E srs_id \in 1..MaxSrs : DeleteSRS("w1", srs_id)

SpecDelete == Init /\ [][NextDelete]_vars

\* The GET endpoints, served by the handler threads W.
NextReads(W) ==
    \/ \E w \in W, srs_id \in 1..MaxSrs : SRSItemGet(w, srs_id)
    \/ \E w \in W : TestCasesGet(w)
    \/ \E w \in W : ScriptsGet(w)
    \/ \E w \in W, run_id \in 1..MaxRuns : RunItemGet(w, run_id)
    \/ \E w \in W, run_id \in 1..MaxRuns : RunResultsGet(w, run_id)
    \/ \E w \in W, run_id \in 1..MaxRuns : RunLogsGet(w, run_id)
    \/ \E w \in W : ReportsLatestBegin(w)
    \/ \E w \in W : ReportsLatestFinish(w)
    \/ \E w \in W : Deliver(w)

\* One thread serves the writing endpoints, the other the GET endpoints,
\* at any moment of the first one's requests.
NextObserved ==
    \/ NextApi({"w1"})
    \/ NextReads({"w2"})

SpecObserved == Init /\ [][NextObserved]_vars

\* One request at a time, the payload of the last POST /api/runs kept beside
\* the handler's state.
NextPayload ==
    \/ NextApiButRuns({"w1"})
    \/ \E script_ids \in ScriptIdLists :
          /\ RunsPostBegin("w1", script_ids)
          /\ svc' = [svc EXCEPT !.cur = [fn |-> "POST /api/runs",
                                         args |-> <<script_ids>>,
                                         result |-> NULL]]

SpecPayload == Init /\ [][NextPayload]_vars

\* The functions of LLMService, called directly: the last two calls.
SrsTitles == {"Login", "Checkout"}
SrsContents == {"", "The user shall log in."}
NameChars == {"A", " ", ":"}
MaxNameLen == 2
Drafts ==
    {[name |-> n, description |-> v[1], priority |-> "P0", tags |-> v[2]] :
        n \in SeqsUpTo(NameChars, MaxNameLen), v \in {<<"", "">>, <<"d", "ui">>}}

Called(fn, args, result) ==
    /\ svc' = [prev |-> svc.cur,
               cur |-> [fn |-> fn, args |-> args, result |-> result]]
    /\ UNCHANGED <<databaseUrl, llmMock, db, seq, files, pc, req, sess, resp>>

GenerateTestCasesCall(srs_title, srs_content) ==
    Called("generate_test_cases", <<srs_title, srs_content>>,
           generate_test_cases(srs_title, srs_content))

GenerateScriptCall(test_case) ==
    Called("generate_script", <<test_case>>, generate_script(test_case))

NextLlm ==
    \/ \E srs_title \in SrsTitles, srs_content \in SrsContents :
          GenerateTestCasesCall(srs_title, srs_content)
    \/ \E test_case \in Drafts : GenerateScriptCall(test_case)

SpecLlm == Init /\ [][NextLlm]_vars

\* The normalisation of an uploaded .csv file, called directly.
CsvChars == {"a", ",", "\n", "\"", " ", "|"}
MaxCsvLen == 5

\* The text of an uploaded file is given; nothing else is in play.
InitUpload ==
    /\ databaseUrl = "sqlite"
    /\ llmMock = TRUE
    /\ db = EmptyTables
    /\ seq = [t \in Tables |-> 0]
    /\ files = {}
    /\ pc = [w \in Workers |-> "idle"]
    /\ req = [w \in Workers |-> NoRequest]
    /\ sess = [w \in Workers |-> EmptySession]
    /\ resp = [w \in Workers |-> NoResponse]
    /\ \E data \in SeqsUpTo(CsvChars, MaxCsvLen) :
          svc = [prev |-> NoCall, cur |-> [NoCall EXCEPT !.args = <<data>>]]

NormalizeCsvCall ==
    /\ svc.cur.fn = NULL
    /\ svc' = [svc EXCEPT
                  !.cur.fn = "_normalize_text_from_csv_bytes",
                  !.cur.result = _normalize_text_from_csv_bytes(svc.cur.args[1])]
    /\ UNCHANGED <<databaseUrl, llmMock, db, seq, files, pc, req, sess, resp>>

NextUpload == NormalizeCsvCall

SpecUpload == InitUpload /\ [][NextUpload]_vars

---------------------------------------------------------------------------
(* Properties *)

RunsOp == "POST /api/runs"

\* The handler of w is between the creation of its Run and its last statement.
InFlight(w) == pc[w] \in {"queried", "running", "returned"}

\* POST /api/runs has returned a Run to the client of w.
Created(w) == pc[w] = "done" /\ resp[w].op = RunsOp /\ resp[w].http = 201

\* The Run object the handler of w holds (id 0: none).
RunOf(w) ==
    IF InFlight(w) THEN req[w].run
    ELSE IF Created(w) THEN resp[w].run
    ELSE NoRun

ResultsOf(run_id) == {x \in db["test_result"] : x.run_id = run_id}

\* C1: a Run's status only moves running -> {completed, failed}.  The Run is
\* created with status running and started_at set, in the step before the
\* one that invokes the runner; it stays running until the runner has
\* returned; it becomes completed or failed only in the step that follows
\* the runner's return; a committed Run row never changes.
C1_StatusOrder ==
    [][\A w \in Workers :
          LET a == RunOf(w)
              b == RunOf(w)'
          IN  /\ (a.id = 0 /\ b.id # 0) =>
                    /\ b.status = "running"
                    /\ b.started_at # NULL
                    /\ b.finished_at = NULL
                    /\ pc'[w] = "queried"
              /\ (pc[w] = "queried" /\ pc'[w] # "queried") =>
                    /\ a.status = "running"
                    /\ a.started_at # NULL
              /\ pc'[w] \in {"queried", "running", "returned"} =>
                    b.status = "running"
              /\ (a.id # 0 /\ b.id # 0 /\ b.status # a.status) =>
                    /\ a.status = "running"
                    /\ b.status \in {"completed", "failed"}
                    /\ pc[w] = "returned"
                    /\ b.id = a.id
                    /\ b.started_at = a.started_at
              /\ \A x \in db["run"] : x \in db'["run"]
              /\ (b.id # 0 /\ b \in db'["run"] \ db["run"]) =>
                    /\ b.status \in {"completed", "failed"}
                    /\ pc[w] = "returned"]_vars

C1_Witness ==
    \E w \in Workers :
        /\ Created(w)
        /\ resp[w].run.status = "failed"
        /\ resp[w].run.started_at # NULL
        /\ resp[w].run \in db["run"]

\* C2: the TestResult rows of a Run that POST /api/runs created are as many
\* as the valid (existing) script ids that were supplied, and all carry the
\* same outcome: passed when the exit code is zero, failed otherwise.
C2_ResultsPerValidScript ==
    \A w \in Workers :
        Created(w) =>
            LET rows == ResultsOf(resp[w].run.id)
            IN  /\ Cardinality(rows) = Cardinality(req[w].valid)
                /\ {x.script_id : x \in rows} = req[w].valid
                /\ \A x \in rows :
                      x.outcome = IF req[w].code = 0 THEN "passed" ELSE "failed"

C2_Witness ==
    \E w \in Workers :
        /\ Created(w)
        /\ req[w].code # 0
        /\ Cardinality(ResultsOf(resp[w].run.id)) = 2
        /\ \A x \in ResultsOf(resp[w].run.id) : x.outcome = "failed"

\* C3: the Run that POST /api/runs returns is completed exactly when the
\* runner's exit code was zero and failed exactly when it was not, has
\* finished_at set, and is the row the request committed.
C3_StatusFromExitCode ==
    \A w \in Workers :
        Created(w) =>
            /\ resp[w].run.status = "completed" <=> req[w].code = 0
            /\ resp[w].run.status = "failed" <=> req[w].code # 0
            /\ resp[w].run.finished_at # NULL
            /\ resp[w].run \in db["run"]

C3_Witness ==
    \E w \in Workers :
        /\ Created(w)
        /\ req[w].code < 0
        /\ resp[w].run.status = "failed"
        /\ resp[w].run.finished_at # NULL

\* At most one TestResult row per (run_id, script_id) pair.
UniquePerRunScript(rows) ==
    \A x, y \in rows : (x.run_id = y.run_id /\ x.script_id = y.script_id) => x = y

\* C4: no database state holds two TestResult rows for one (run, script)
\* pair; writing a TestResult for a pair that already has one raises
\* IntegrityError and changes nothing; a run-creation request whose Run has no
\* TestResult yet succeeds, with one TestResult per script, whatever other
\* Runs reference the same scripts.
C4_UniqueResults ==
    [][/\ UniquePerRunScript(db'["test_result"])
       /\ \A run_id \in 1..MaxRuns, script_id \in 1..MaxScripts :
             ( /\ AddTestResult("w1", run_id, script_id)
               /\ \E x \in db["test_result"] :
                     x.run_id = run_id /\ x.script_id = script_id )
             => /\ resp'["w1"].error = "IntegrityError"
                /\ db' = db
       /\ ( /\ RunsPostFinish("w1")
            /\ ResultsOf(req["w1"].run.id) = {} )
          => /\ resp'["w1"].http = 201
             /\ \A i \in req["w1"].valid :
                   Cardinality({x \in db'["test_result"] :
                       x.run_id = req["w1"].run.id /\ x.script_id = i}) = 1
      ]_vars

C4_Witness ==
    /\ databaseUrl = "sqlite"
    /\ pc["w1"] = "done"
    /\ resp["w1"].op = "session.add(TestResult)"
    /\ resp["w1"].error = "IntegrityError"
    /\ \E x, y \in db["test_result"] :
          /\ x.script_id = y.script_id
          /\ x.run_id # y.run_id
          /\ {x.run_id, y.run_id} \subseteq Ids(db["run"])
          /\ x.outcome # "pending" /\ y.outcome # "pending"

\* Every child row of d references an existing parent row.
ReferentialIntegrity(d) ==
    /\ \A x \in d["test_case"] : x.srs_id \in Ids(d["srs"])
    /\ \A x \in d["script"] : x.test_case_id \in Ids(d["test_case"])
    /\ \A x \in d["test_result"] :
          x.run_id \in Ids(d["run"]) /\ x.script_id \in Ids(d["script"])

\* C5: in every committed state the API's operations reach, every TestCase
\* references an existing SRS, every Script an existing TestCase, and every
\* TestResult an existing Run and an existing Script.
C5_ReferentialIntegrity == ReferentialIntegrity(db)

C5_Witness ==
    /\ ReferentialIntegrity(db)
    /\ Cardinality(db["test_case"]) = 2
    /\ Cardinality(db["script"]) = 2
    /\ Cardinality(db["run"]) = 2
    /\ \A r \in db["run"] : Cardinality(ResultsOf(r.id)) = 2

\* The rows below the SRS srs_id in d: its test cases, their scripts, those
\* scripts' results.
ChildrenOf(d, srs_id) == OnDeleteCascade(d, Get(d["srs"], srs_id))

\* C6: deleting an SRS removes with it all of its TestCase rows, their Script
\* rows and those Scripts' TestResult rows, whether or not the session had
\* loaded them: none of them is left in the committed state.
C6_DeleteCascades ==
    [][\A srs_id \in 1..MaxSrs :
          DeleteSRS("w1", srs_id) =>
              \A t \in Tables : db'[t] \cap ChildrenOf(db, srs_id)[t] = {}]_vars

\* An SRS has been deleted and rows that were below it are still there.
C6_Orphans ==
    /\ pc["w1"] = "done"
    /\ resp["w1"].op = "session.delete(srs)"
    /\ db["srs"] = {}
    /\ db["test_case"] # {}
    /\ db["script"] # {}
    /\ db["test_result"] # {}
    /\ ~ReferentialIntegrity(db)

\* C7: POST /api/testcases/generate for an SRS id that does not exist, and
\* POST /api/scripts/generate for a test_case_id that does not exist, answer
\* 404 and leave the database, the id sequences and the files as they were.
C7_NotFound ==
    [][\A w \in Workers :
          /\ \A srs_id \in 1..(MaxSrs + 1) :
                (TestCaseGenerationPost(w, srs_id) /\ srs_id \notin Ids(db["srs"]))
                => /\ resp'[w].http = 404
                   /\ db' = db /\ seq' = seq /\ files' = files
          /\ \A tc_id \in 1..(MaxTestCases + 1) :
                (ScriptGenerationPost(w, tc_id) /\ tc_id \notin Ids(db["test_case"]))
                => /\ resp'[w].http = 404
                   /\ db' = db /\ seq' = seq /\ files' = files]_vars

C7_Witness ==
    \E w \in Workers :
        /\ pc[w] = "done"
        /\ resp[w].op = "POST /api/scripts/generate"
        /\ resp[w].http = 404
        /\ db["srs"] # {}
        /\ db["test_case"] # {}
        /\ db["script"] = {}
        /\ files = {}

\* The handler of w ends in this step.
Ends(w) == pc[w] # "done" /\ pc'[w] = "done"

\* C8: the committed state changes only in the step that ends an operation
\* without an exception, and then all of the operation's rows appear at
\* once; an operation that ends with an exception, whatever it had flushed
\* before, leaves the committed state as it was; the rows an operation has
\* flushed are in no committed state before its end.
C8_AllOrNothing ==
    [][/\ db' # db =>
             \E w \in Workers : Ends(w) /\ resp'[w].error = NULL
       /\ \A w \in Workers :
             /\ (Ends(w) /\ resp'[w].error # NULL) => db' = db
             /\ (Ends(w) /\ resp'[w].op = "POST /api/testcases/generate"
                         /\ resp'[w].http = 200) =>
                   Cardinality(db'["test_case"] \ db["test_case"]) =
                       Len(generate_test_cases("", ""))
             /\ pc'[w] \in {"queried", "running", "returned"} =>
                   /\ req'[w].run \in sess'[w].added["run"]
                   /\ req'[w].run.id \notin Ids(db'["run"])
             /\ (Ends(w) /\ resp'[w].op = RunsOp /\ resp'[w].http = 201) =>
                   /\ resp'[w].run \in db'["run"] \ db["run"]
                   /\ ResultsOf(resp'[w].run.id) = {}
                   /\ Cardinality({x \in db'["test_result"] :
                                      x.run_id = resp'[w].run.id}) =
                         Cardinality(req[w].scripts)
       /\ \A x \in db'["run"] : x.status # "running"
      ]_vars

C8_Witness ==
    \E w \in Workers :
        /\ pc[w] = "done"
        /\ resp[w].error = "IntegrityError"
        /\ resp[w].op = "POST /api/testcases/generate"
        /\ Cardinality(db["test_case"]) = 2
        /\ \E q \in Workers :
              /\ pc[q] = "done"
              /\ resp[q].error = "OSError"
              /\ req[q].run.id # 0
              /\ req[q].run.id \notin Ids(db["run"])

\* C9: when the runner cannot be started, the request ends with the error
\* (500, no Run in the response), the launch was attempted once, and neither
\* the Run row nor a TestResult row of the request is committed; a launch
\* that succeeds was attempted once as well.
C9_LaunchFailure ==
    [][\A w \in Workers :
          /\ (pc[w] = "queried" /\ pc'[w] = "done") =>
                /\ resp'[w].op = RunsOp
                /\ resp'[w].http = 500
                /\ resp'[w].error = "OSError"
                /\ resp'[w].run = NoRun
                /\ req[w].launches = 0
                /\ req'[w].launches = 1
                /\ db' = db
                /\ req[w].run.id \notin Ids(db'["run"])
                /\ \A x \in db'["test_result"] : x.run_id # req[w].run.id
          /\ (pc[w] = "queried" /\ pc'[w] = "running") =>
                req[w].launches = 0 /\ req'[w].launches = 1
          /\ pc[w] \in {"running", "returned"} => req'[w].launches = 1]_vars

C9_Witness ==
    \E w \in Workers :
        /\ pc[w] = "done"
        /\ resp[w].error = "OSError"
        /\ req[w].launches = 1
        /\ req[w].scripts # {}
        /\ run_artifact(req[w].run.id, "run.log") \in files
        /\ run_artifact(req[w].run.id, "results.xml") \notin files
        /\ req[w].run.id \notin Ids(db["run"])

\* The files of run_scripts for a Run: run.log and results.xml.
ArtifactsOf(run_id) ==
    {run_artifact(run_id, "run.log"), run_artifact(run_id, "results.xml")}

BothCalls(fn) == svc.prev.fn = fn /\ svc.cur.fn = fn

\* The original statement of C11: in mock mode any two calls of
\* generate_test_cases return the same sequence of drafts, whatever their
\* inputs.
C11_SameForAllInputs ==
    (llmMock /\ BothCalls("generate_test_cases")) =>
        svc.prev.result = svc.cur.result

\* C11: in mock mode generate_test_cases returns exactly two drafts, which
\* do not depend on the content; of the title they depend only through the
\* name of the first draft, which is "Verify title presence: " followed by
\* the title; every other field and the order are the same for any two
\* inputs.
C11_FixedButTitle ==
    (llmMock /\ BothCalls("generate_test_cases")) =>
        LET a == svc.prev.result
            b == svc.cur.result
        IN  /\ Len(a) = 2 /\ Len(b) = 2
            /\ svc.prev.args[1] = svc.cur.args[1] => a = b
            /\ b[1].name = <<"Verify title presence: ", svc.cur.args[1]>>
            /\ [a[1] EXCEPT !.name = <<>>] = [b[1] EXCEPT !.name = <<>>]
            /\ a[2] = b[2]

C11_Witness ==
    /\ llmMock
    /\ BothCalls("generate_test_cases")
    /\ svc.prev.args[1] # svc.cur.args[1]
    /\ svc.prev.args[2] # svc.cur.args[2]
    /\ svc.prev.result # svc.cur.result
    /\ svc.prev.result[2] = svc.cur.result[2]

\* The slug of a name, character by character: a colon is dropped, a space
\* becomes an underscore, any other character is lower-cased.
RECURSIVE SlugOf(_)
SlugOf(name) ==
    IF name = <<>> THEN <<>>
    ELSE LET c == Head(name)
         IN  (CASE c = ":" -> <<>>
                [] c = " " -> <<"_">>
                [] c = "A" -> <<"a">>
                [] c = "B" -> <<"b">>
                [] OTHER -> <<c>>) \o SlugOf(Tail(name))

\* C12: in mock mode two calls of generate_script with the same name return
\* the same text, whatever the description, priority and tags and whatever
\* was called before; the text is the fixed template around test_ followed
\* by the name lower-cased, spaces replaced by underscores, colons removed.
C12_PureInName ==
    /\ (llmMock /\ BothCalls("generate_script")
               /\ svc.prev.args[1].name = svc.cur.args[1].name)
          => svc.prev.result = svc.cur.result
    /\ (llmMock /\ svc.cur.fn = "generate_script") =>
          svc.cur.result = <<"import pytest ... def test_">>
                              \o SlugOf(svc.cur.args[1].name)
                              \o <<"(url): ... browser.close()\n">>

C12_Witness ==
    /\ llmMock
    /\ BothCalls("generate_script")
    /\ svc.prev.args[1].name = <<"A", ":">>
    /\ svc.cur.args[1].name = <<"A", ":">>
    /\ svc.prev.args[1].tags # svc.cur.args[1].tags
    /\ svc.prev.args[1].description # svc.cur.args[1].description
    /\ svc.cur.result[2] = "a"
    /\ Len(svc.cur.result) = 3

\* str.split(sep), from character i on; cur is the piece being read.
RECURSIVE split(_, _, _, _)
split(str, sep, i, cur) ==
    IF i > Len(str) THEN <<cur>>
    ELSE IF /\ i + Len(sep) - 1 <= Len(str)
            /\ SubSeq(str, i, i + Len(sep) - 1) = sep
         THEN <<cur>> \o split(str, sep, i + Len(sep), <<>>)
         ELSE split(str, sep, i + 1, Append(cur, str[i]))

LinesOf(text) == split(text, <<"\n">>, 1, <<>>)

FieldsOf(line) == split(line, <<" ", "|", " ">>, 1, <<>>)

\* The (stripped) header row of the uploaded text, <<>> if it has no row.
HeaderOf(data) ==
    LET read == csv_reader(data, 1, "START_RECORD", <<>>, <<>>, <<>>)
    IN  IF read = <<>> THEN <<>> ELSE [j \in DOMAIN read[1] |-> strip(read[1][j])]

\* text is a pipe-delimited table under the given header: the header row,
\* a row of one --- per header field, and data rows of as many fields.
IsTable(text, header) ==
    LET lines == LinesOf(text)
    IN  /\ Len(lines) >= 2
        /\ FieldsOf(lines[1]) = header
        /\ FieldsOf(lines[2]) = [j \in DOMAIN header |-> <<"-", "-", "-">>]
        /\ \A k \in 3..Len(lines) : Len(FieldsOf(lines[k])) = Len(header)

\* C13: for every uploaded .csv text the normalised content is a
\* pipe-delimited table: its first line is the header row, its second line
\* a separator row with one --- per header field, and every data row has as
\* many fields as the header.
C13_CsvTable ==
    svc.cur.fn = "_normalize_text_from_csv_bytes" =>
        IsTable(svc.cur.result, HeaderOf(svc.cur.args[1]))

\* A header field with a line break inside quotes: the second line of the
\* content is not the separator row.
C13_BrokenTable ==
    /\ svc.cur.fn = "_normalize_text_from_csv_bytes"
    /\ svc.cur.args[1] = <<"\"", "a", "\n", "a", "\"">>
    /\ HeaderOf(svc.cur.args[1]) = << <<"a", "\n", "a">> >>
    /\ LinesOf(svc.cur.result) = << <<"a">>, <<"a">>, <<"-", "-", "-">> >>
    /\ ~IsTable(svc.cur.result, HeaderOf(svc.cur.args[1]))

ReportsOp == "GET /api/reports/latest"

\* C14: GET /api/reports/latest answers 404 exactly when no Run exists;
\* otherwise its first query takes the most recently created Run, and the
\* summary carries that Run's id and status, the numbers of its TestResult
\* rows with outcome passed and failed, and the number of all its rows,
\* with passed + failed = total.
C14_LatestReport ==
    [][\A w \in Workers :
          /\ ReportsLatestBegin(w) =>
                IF db["run"] = {}
                THEN pc'[w] = "done" /\ resp'[w].op = ReportsOp
                                     /\ resp'[w].http = 404
                ELSE /\ pc'[w] = "latest"
                     /\ req'[w].run \in db["run"]
                     /\ \A y \in db["run"] : y.id <= req'[w].run.id
          /\ (pc[w] = "latest" /\ pc'[w] = "done") =>
                LET latest == req[w].run
                    rows == {x \in db["test_result"] : x.run_id = latest.id}
                    body == resp'[w].body
                IN  /\ resp'[w].op = ReportsOp /\ resp'[w].http = 200
                    /\ latest \in db["run"]
                    /\ body.run_id = latest.id
                    /\ body.status = latest.status
                    /\ body.passed =
                          Cardinality({x \in rows : x.outcome = "passed"})
                    /\ body.failed =
                          Cardinality({x \in rows : x.outcome = "failed"})
                    /\ body.total = Cardinality(rows)
                    /\ body.passed + body.failed = body.total]_vars

C14_Witness ==
    \E w \in Workers :
        /\ pc[w] = "done"
        /\ resp[w].op = ReportsOp
        /\ resp[w].http = 200
        /\ Cardinality(db["run"]) = 2
        /\ resp[w].body.run_id = 2
        /\ resp[w].body.status = "completed"
        /\ resp[w].body.passed = 2
        /\ resp[w].body.failed = 0
        /\ \E x \in ResultsOf(1) : x.outcome = "failed"

\* C15: every committed Run row and TestResult row stays as it is for ever,
\* and the run and test_result tables change only in the step that ends a
\* POST /api/runs request: no GET endpoint, SRS creation, test-case
\* generation or script generation changes them.
C15_OnlyRunsWriteRuns ==
    [][/\ \A x \in db["run"] : x \in db'["run"]
       /\ \A x \in db["test_result"] : x \in db'["test_result"]
       /\ (db'["run"] # db["run"] \/ db'["test_result"] # db["test_result"])
             => \E w \in Workers : /\ pc[w] = "returned"
                                   /\ pc'[w] = "done"
                                   /\ resp'[w].op = RunsOp
       /\ \A w \in Workers :
             (Ends(w) /\ resp'[w].op # RunsOp) =>
                 /\ db'["run"] = db["run"]
                 /\ db'["test_result"] = db["test_result"]]_vars

C15_Witness ==
    /\ pc["w1"] = "done"
    /\ resp["w1"].op = "POST /api/scripts/generate"
    /\ resp["w1"].http = 201
    /\ pc["w2"] = "done"
    /\ resp["w2"].op = "GET /api/runs/<run_id>"
    /\ resp["w2"].http = 200
    /\ resp["w2"].run.status = "completed"
    /\ resp["w2"].run \in db["run"]
    /\ ResultsOf(resp["w2"].run.id) # {}

\* At most one TestCase row per (srs_id, name) pair.
UniquePerSrsName(rows) ==
    \A x, y \in rows : (x.srs_id = y.srs_id /\ x.name = y.name) => x = y

\* C16: in every committed state no two TestCase rows have the same
\* (srs_id, name); a POST /api/testcases/generate for an SRS that already
\* has a TestCase with the name of one of the drafts fails (500,
\* IntegrityError) and adds none of its rows.
C16_UniqueNames ==
    [][/\ UniquePerSrsName(db'["test_case"])
       /\ \A w \in Workers, srs_id \in 1..MaxSrs :
             ( /\ TestCaseGenerationPost(w, srs_id)
               /\ \E srs \in db["srs"], tc \in db["test_case"] :
                     /\ srs.id = srs_id
                     /\ tc.srs_id = srs_id
                     /\ \E i \in 1..Len(generate_test_cases(srs.title, "")) :
                           tc.name = generate_test_cases(srs.title, "")[i].name )
             => /\ resp'[w].http = 500
                /\ resp'[w].error = "IntegrityError"
                /\ db' = db]_vars

C16_Witness ==
    \E w \in Workers :
        /\ pc[w] = "done"
        /\ resp[w].op = "POST /api/testcases/generate"
        /\ resp[w].error = "IntegrityError"
        /\ \E x, y \in db["test_case"] : x.srs_id = y.srs_id /\ x.name # y.name
        /\ UniquePerSrsName(db["test_case"])

Finished(run) ==
    /\ run.status \in {"completed", "failed"}
    /\ run.started_at # NULL
    /\ run.finished_at # NULL

\* C17: every committed Run is completed or failed with started_at and
\* finished_at set; a Run's TestResult rows are committed in the step that
\* commits the Run; and what GET /api/runs/<id>, GET /api/runs/<id>/results
\* and GET /api/reports/latest return while another request is creating a
\* Run shows nothing of that Run: no Run that is pending or running, no
\* TestResult of a Run that is not committed.
C17_NoUnfinishedRunVisible ==
    [][/\ \A x \in db'["run"] : Finished(x)
       /\ \A tr \in db'["test_result"] \ db["test_result"] :
             \E r \in db'["run"] \ db["run"] : r.id = tr.run_id
       /\ \A w \in Workers :
             Ends(w) =>
                /\ (resp'[w].op = "GET /api/runs/<run_id>" /\ resp'[w].http = 200)
                      => Finished(resp'[w].run) /\ resp'[w].run \in db["run"]
                /\ (resp'[w].op = "GET /api/runs/<run_id>"
                        /\ \E q \in Workers : InFlight(q)
                                                 /\ req[q].run.id = resp'[w].body)
                      => resp'[w].http = 404
                /\ resp'[w].op = "GET /api/runs/<run_id>/results"
                      => /\ resp'[w].body.results =
                               {x \in db["test_result"] :
                                   x.run_id = resp'[w].body.run_id}
                         /\ resp'[w].body.results # {}
                               => resp'[w].body.run_id \in Ids(db["run"])
                /\ (resp'[w].op = ReportsOp /\ resp'[w].http = 200)
                      => resp'[w].body.status \in {"completed", "failed"}]_vars

C17_Witness ==
    /\ pc["w1"] = "returned"
    /\ req["w1"].scripts # {}
    /\ pc["w2"] = "done"
    /\ resp["w2"].op = "GET /api/runs/<run_id>/results"
    /\ resp["w2"].body.run_id = req["w1"].run.id
    /\ resp["w2"].body.results = {}
    /\ run_artifact(req["w1"].run.id, "results.xml") \in files
    /\ req["w1"].run.id \notin Ids(db["run"])

\* C18: a POST /api/runs whose script_ids has duplicate ids, ids of no
\* Script, or no id of a Script at all, ends with 201 and never with
\* IntegrityError; it commits one TestResult for each distinct supplied id
\* that names a Script and none for any other id, and a Run whose status
\* follows the exit code.
C18_DuplicateAndUnknownIds ==
    [][(pc["w1"] = "returned" /\ pc'["w1"] = "done") =>
          LET script_ids == svc.cur.args[1]
              existing == Range(script_ids) \cap Ids(db["script"])
              run_id == req["w1"].run.id
              rows == {x \in db'["test_result"] : x.run_id = run_id}
          IN  /\ resp'["w1"].op = RunsOp
              /\ resp'["w1"].http = 201
              /\ resp'["w1"].error = NULL
              /\ {x.script_id : x \in rows} = existing
              /\ Cardinality(rows) = Cardinality(existing)
              /\ resp'["w1"].run \in db'["run"]
              /\ resp'["w1"].run.id = run_id
              /\ resp'["w1"].run.status =
                    IF req["w1"].code = 0 THEN "completed" ELSE "failed"]_vars

C18_Witness ==
    /\ Created("w1")
    /\ svc.cur.args[1] = <<1, 3, 1>>
    /\ Ids(db["script"]) = {1, 2}
    /\ {x.script_id : x \in ResultsOf(resp["w1"].run.id)} = {1}
    /\ Cardinality(ResultsOf(resp["w1"].run.id)) = 1
    /\ \E r \in db["run"] : r.status = "failed" /\ ResultsOf(r.id) = {}

====
